---- MODULE Spec2Model ----
(***************************************************************************)
(* Model of src/src/bf.rs: the compiler (VirtualMachine::compile) and the  *)
(* executor (VirtualMachine::run) of the tape interpreter, driven by the   *)
(* entry operation execute.                                                *)
(*                                                                         *)
(* Indices (instruction index, jump targets, pending positions, pointer)   *)
(* are 0-based as in the source; the TLA+ sequences that hold them are     *)
(* 1-based, so the instruction at index i is instructions[i + 1].          *)
(*                                                                         *)
(* The tape [u8; MEMORY_SIZE] is held as the function of its nonzero       *)
(* cells: a cell outside the domain is 0.  The all-zero tape is the empty  *)
(* function.  The streams are in-memory streams as in the tests: the input *)
(* is a byte sequence with a read position, the output is the sequence of  *)
(* bytes written to it.                                                    *)
(***************************************************************************)
EXTENDS Integers, Sequences, FiniteSets, TLC

VARIABLES code, input, pc, pos, left, instructions, memory, pointer, index,
          inpos, output, steps, compiles

vars == <<code, input, pc, pos, left, instructions, memory, pointer, index,
          inpos, output, steps, compiles>>

MEMORY_SIZE == 30000

(* ---------------------------- bounds ---------------------------------- *)
\* longest source of the exhaustive source set
MaxLen == 3
\* longest input stream of the exhaustive input set
MaxInput == 1
\* executor iterations after which a run is no longer followed
MaxSteps == 400
\* longest source over the loop alphabet
MaxLoopLen == 4
\* longest source given to an instance that is compiled more than once
MaxReuseLen == 2
\* compile calls followed on one instance
MaxCompiles == 2
\* longest bracket-free source of the termination family
MaxHaltLen == 3
\* longest source of the executor-comparison family
MaxEquivLen == 4
\* longest source over the pointer alphabet
MaxPtrLen == 4
\* largest first operand of the addition program
MaxAddA == 30
\* largest counts of the multiplication program
MaxMulA == 6
MaxMulB == 10
MaxMulC == 5

(* ---------------------------- helpers --------------------------------- *)
Byte == 0..255

SeqsUpTo(S, n) == UNION {[1..k -> S] : k \in 0..n}

RECURSIVE Repeat(_, _)
Repeat(ch, n) == IF n = 0 THEN <<>> ELSE <<ch>> \o Repeat(ch, n - 1)

Last(s) == s[Len(s)]
Front(s) == SubSeq(s, 1, Len(s) - 1)

(* ------------------------------ tape ---------------------------------- *)
ZeroMemory == [q \in {} |-> 0]

Cell(m, p) == IF p \in DOMAIN m THEN m[p] ELSE 0

SetCell(m, p, v) ==
  IF v = 0
  THEN [q \in (DOMAIN m) \ {p} |-> m[q]]
  ELSE [q \in (DOMAIN m) \cup {p} |-> IF q = p THEN v ELSE m[q]]

(* -------------------------- instructions ------------------------------ *)
Instruction(op, arg) == [op |-> op, arg |-> arg]

Recognized == {">", "<", "+", "-", ".", ",", "[", "]"}

NonJump(ch) ==
  CASE ch = ">" -> Instruction("MoveRight", 0)
    [] ch = "<" -> Instruction("MoveLeft", 0)
    [] ch = "+" -> Instruction("Increment", 0)
    [] ch = "-" -> Instruction("Decrement", 0)
    [] ch = "." -> Instruction("Write", 0)
    [] ch = "," -> Instruction("Read", 0)

(* ----------------------------- compile -------------------------------- *)
\* '[' : left.push(len); push LoopStart(0)
OpenBracket(ins, lft) ==
  [panic |-> FALSE,
   instructions |-> Append(ins, Instruction("LoopStart", 0)),
   left |-> Append(lft, Len(ins))]

\* ']' : left.pop().unwrap(); patch the LoopStart; push LoopEnd(l)
\* a ']' with nothing pending answers every unwrap with a panic
CloseBracket_ignore(ins, lft) ==
  IF Len(lft) = 0
  THEN [panic |-> FALSE, instructions |-> ins, left |-> lft]
  ELSE LET l == Last(lft) IN
       [panic |-> FALSE,
        instructions |->
          Append([ins EXCEPT ![l + 1] = Instruction("LoopStart", Len(ins))],
                 Instruction("LoopEnd", l)),
        left |-> Front(lft)]

CloseBracket_after(ins, lft) ==
  IF Len(lft) = 0
  THEN [panic |-> TRUE, instructions |-> ins, left |-> lft]
  ELSE LET l == Last(lft) IN
       [panic |-> FALSE,
        instructions |->
          Append([ins EXCEPT ![l + 1] = Instruction("LoopStart", Len(ins) + 1)],
                 Instruction("LoopEnd", l)),
        left |-> Front(lft)]

CloseBracket_first(ins, lft) ==
  IF Len(lft) = 0
  THEN [panic |-> TRUE, instructions |-> ins, left |-> lft]
  ELSE LET l == Head(lft) IN
       [panic |-> FALSE,
        instructions |->
          Append([ins EXCEPT ![l + 1] = Instruction("LoopStart", Len(ins))],
                 Instruction("LoopEnd", l)),
        left |-> Tail(lft)]

CloseBracket(ins, lft) ==
  IF Len(lft) = 0
  THEN [panic |-> TRUE, instructions |-> ins, left |-> lft]
  ELSE LET l == Last(lft) IN
       [panic |-> FALSE,
        instructions |->
          Append([ins EXCEPT ![l + 1] = Instruction("LoopStart", Len(ins))],
                 Instruction("LoopEnd", l)),
        left |-> Front(lft)]

\* one iteration of the for loop over code.chars()
CompileChar_blank(ch, ins, lft) ==
  CASE ch \in {">", "<", "+", "-", ".", ","} ->
         [panic |-> FALSE, instructions |-> Append(ins, NonJump(ch)), left |-> lft]
    [] ch = "[" -> OpenBracket(ins, lft)
    [] ch = "]" -> CloseBracket(ins, lft)
    [] OTHER -> [panic |-> FALSE, instructions |-> Append(ins, NonJump(">")),
                 left |-> lft]

CompileChar(ch, ins, lft) ==
  CASE ch \in {">", "<", "+", "-", ".", ","} ->
         [panic |-> FALSE, instructions |-> Append(ins, NonJump(ch)), left |-> lft]
    [] ch = "[" -> OpenBracket(ins, lft)
    [] ch = "]" -> CloseBracket(ins, lft)
    [] OTHER -> [panic |-> FALSE, instructions |-> ins, left |-> lft]

\* the for loop of compile from character k on, as one function of the
\* source: it stops at the first panic
RECURSIVE CompileFrom(_, _, _, _)
CompileFrom(src, k, ins, lft) ==
  IF k > Len(src) THEN [panic |-> FALSE, instructions |-> ins, left |-> lft]
  ELSE LET r == CompileChar(src[k], ins, lft) IN
       IF r.panic THEN r ELSE CompileFrom(src, k + 1, r.instructions, r.left)

\* compile on a fresh instance: cleared program, empty stack of pending '['
compile(src) == CompileFrom(src, 1, <<>>, <<>>)

(* ------------------------------- run ---------------------------------- *)
wrapping_add_saturating(v) == IF v = 255 THEN 255 ELSE v + 1
wrapping_add(v) == (v + 1) % 256

wrapping_sub_saturating(v) == IF v = 0 THEN 0 ELSE v - 1
wrapping_sub(v) == (v + 255) % 256

MoveRight_clamped(p) == IF p = MEMORY_SIZE - 1 THEN p ELSE p + 1
MoveRight(p) == (p + 1) % MEMORY_SIZE

MoveLeft_clamped(p) == IF p = 0 THEN 0 ELSE p - 1
MoveLeft_unchecked(p) == p - 1
MoveLeft(p) == (p + MEMORY_SIZE - 1) % MEMORY_SIZE

\* self.input.read_exact(&mut buf) for a one-byte buf
read_exact_zero_fill(inp, at) ==
  IF at < Len(inp)
  THEN [ok |-> TRUE, byte |-> inp[at + 1], inpos |-> at + 1]
  ELSE [ok |-> TRUE, byte |-> 0, inpos |-> at]

read_exact_first(inp, at) ==
  IF at < Len(inp)
  THEN [ok |-> TRUE, byte |-> inp[1], inpos |-> at + 1]
  ELSE [ok |-> FALSE, byte |-> 0, inpos |-> at]

read_exact(inp, at) ==
  IF at < Len(inp)
  THEN [ok |-> TRUE, byte |-> inp[at + 1], inpos |-> at + 1]
  ELSE [ok |-> FALSE, byte |-> 0, inpos |-> at]

\* LoopStart(jump_to): if the cell is 0, next = jump_to
LoopStartNext_enter(cell, jump_to, idx) == idx + 1
LoopStartNext_inverted(cell, jump_to, idx) == IF cell # 0 THEN jump_to ELSE idx + 1
LoopStartNext(cell, jump_to, idx) == IF cell = 0 THEN jump_to ELSE idx + 1

\* LoopEnd(jump_to): if the cell is not 0, next = jump_to
LoopEndNext_once(cell, jump_to, idx) == idx + 1
LoopEndNext_inverted(cell, jump_to, idx) == IF cell = 0 THEN jump_to ELSE idx + 1
LoopEndNext_always(cell, jump_to, idx) == jump_to
LoopEndNext(cell, jump_to, idx) == IF cell # 0 THEN jump_to ELSE idx + 1

At(i) == instructions[i + 1]

\* reset(): self.memory = [0; MEMORY_SIZE]; self.pointer = 0
reset_memory(m) == ZeroMemory
reset_pointer(p) == 0

\* clear(): reset(), then self.instructions.clear()
clear_instructions_keep(ins) == ins
clear_instructions(ins) == <<>>

(* ----------------------------- actions -------------------------------- *)
\* compile, lines 47-48: self.clear() and the empty stack of pending '['
CompileBegin ==
  /\ pc = "new"
  /\ pc' = "compile"
  /\ memory' = reset_memory(memory)
  /\ pointer' = reset_pointer(pointer)
  /\ instructions' = clear_instructions(instructions)
  /\ left' = <<>>
  /\ pos' = 0
  /\ compiles' = compiles + 1
  /\ UNCHANGED <<code, input, index, inpos, output, steps>>

\* compile, lines 49-67: one character of the source
CompileStep ==
  /\ pc = "compile"
  /\ pos < Len(code)
  /\ LET r == CompileChar(code[pos + 1], instructions, left) IN
       /\ instructions' = r.instructions
       /\ left' = r.left
       /\ pc' = IF r.panic THEN "panic_compile" ELSE "compile"
       /\ pos' = IF r.panic THEN pos ELSE pos + 1
  /\ UNCHANGED <<code, input, memory, pointer, index, inpos, output, steps,
                 compiles>>

\* compile returns (line 69); execute calls run (line 117), lines 72-73
CompileReturn ==
  /\ pc = "compile"
  /\ pos = Len(code)
  /\ pc' = "run"
  /\ left' = <<>>
  /\ index' = 0
  /\ UNCHANGED <<code, input, pos, instructions, memory, pointer, inpos,
                 output, steps, compiles>>

RunStep_write_advances ==
  /\ pc = "run"
  /\ index < Len(instructions)
  /\ steps < MaxSteps
  /\ LET ins == At(index)
         cell == Cell(memory, pointer)
         rd == read_exact(input, inpos)
         failed == ins.op = "Read" /\ ~rd.ok
     IN
       /\ pc' = IF failed THEN "panic_run" ELSE "run"
       /\ memory' =
            CASE ins.op = "Increment" -> SetCell(memory, pointer, wrapping_add(cell))
              [] ins.op = "Decrement" -> SetCell(memory, pointer, wrapping_sub(cell))
              [] ins.op = "Read" /\ rd.ok -> SetCell(memory, pointer, rd.byte)
              [] OTHER -> memory
       /\ pointer' =
            CASE ins.op = "MoveRight" -> MoveRight(pointer)
              [] ins.op = "Write" -> MoveRight(pointer)
              [] ins.op = "MoveLeft" -> MoveLeft(pointer)
              [] OTHER -> pointer
       /\ inpos' = IF ins.op = "Read" THEN rd.inpos ELSE inpos
       /\ output' = IF ins.op = "Write" THEN Append(output, cell) ELSE output
       /\ index' =
            CASE failed -> index
              [] ins.op = "LoopStart" -> LoopStartNext(cell, ins.arg, index)
              [] ins.op = "LoopEnd" -> LoopEndNext(cell, ins.arg, index)
              [] OTHER -> index + 1
       /\ steps' = IF failed THEN steps ELSE steps + 1
  /\ UNCHANGED <<code, input, pos, left, instructions, compiles>>

\* run, lines 74-110: one iteration of the while loop
RunStep ==
  /\ pc = "run"
  /\ index < Len(instructions)
  /\ steps < MaxSteps
  /\ LET ins == At(index)
         cell == Cell(memory, pointer)
         rd == read_exact(input, inpos)
         failed == ins.op = "Read" /\ ~rd.ok
     IN
       /\ pc' = IF failed THEN "panic_run" ELSE "run"
       /\ memory' =
            CASE ins.op = "Increment" -> SetCell(memory, pointer, wrapping_add(cell))
              [] ins.op = "Decrement" -> SetCell(memory, pointer, wrapping_sub(cell))
              [] ins.op = "Read" /\ rd.ok -> SetCell(memory, pointer, rd.byte)
              [] OTHER -> memory
       /\ pointer' =
            CASE ins.op = "MoveRight" -> MoveRight(pointer)
              [] ins.op = "MoveLeft" -> MoveLeft(pointer)
              [] OTHER -> pointer
       /\ inpos' = IF ins.op = "Read" THEN rd.inpos ELSE inpos
       /\ output' = IF ins.op = "Write" THEN Append(output, cell) ELSE output
       /\ index' =
            CASE failed -> index
              [] ins.op = "LoopStart" -> LoopStartNext(cell, ins.arg, index)
              [] ins.op = "LoopEnd" -> LoopEndNext(cell, ins.arg, index)
              [] OTHER -> index + 1
       /\ steps' = IF failed THEN steps ELSE steps + 1
  /\ UNCHANGED <<code, input, pos, left, instructions, compiles>>

\* run, line 74 false: run and execute return
RunReturn_early ==
  /\ pc = "run"
  /\ index + 1 >= Len(instructions)
  /\ pc' = "done"
  /\ UNCHANGED <<code, input, pos, left, instructions, memory, pointer, index,
                 inpos, output, steps, compiles>>

RunReturn_clear ==
  /\ pc = "run"
  /\ index >= Len(instructions)
  /\ pc' = "done"
  /\ instructions' = <<>>
  /\ UNCHANGED <<code, input, pos, left, memory, pointer, index,
                 inpos, output, steps, compiles>>

RunReturn ==
  /\ pc = "run"
  /\ index >= Len(instructions)
  /\ pc' = "done"
  /\ UNCHANGED <<code, input, pos, left, instructions, memory, pointer, index,
                 inpos, output, steps, compiles>>

Next == CompileBegin \/ CompileStep \/ CompileReturn \/ RunStep \/ RunReturn

(* --------------------------- initial states --------------------------- *)
\* the state VirtualMachine::new builds for the given source and input
New(src, inp) ==
  /\ code = src
  /\ input = inp
  /\ pc = "new"
  /\ pos = 0
  /\ left = <<>>
  /\ instructions = <<>>
  /\ memory = ZeroMemory
  /\ pointer = 0
  /\ index = 0
  /\ inpos = 0
  /\ output = <<>>
  /\ steps = 0
  /\ compiles = 0

Alphabet == Recognized \cup {" "}
InputBytes == {0, 65}

Init == \E src \in SeqsUpTo(Alphabet, MaxLen), inp \in SeqsUpTo(InputBytes, MaxInput) :
          New(src, inp)

Spec == Init /\ [][Next]_vars

(* ------------------- bracket structure of a source -------------------- *)
\* scan src from position k at nesting depth d: the position of the first
\* ']' met with nothing open (0 if none) and the depth left at the end
RECURSIVE ScanBrackets(_, _, _)
ScanBrackets(src, k, d) ==
  IF k > Len(src) THEN [bad |-> 0, depth |-> d]
  ELSE IF src[k] = "[" THEN ScanBrackets(src, k + 1, d + 1)
  ELSE IF src[k] = "]"
       THEN IF d = 0 THEN [bad |-> k, depth |-> 0]
            ELSE ScanBrackets(src, k + 1, d - 1)
  ELSE ScanBrackets(src, k + 1, d)

FirstBadClose(src) == ScanBrackets(src, 1, 0).bad
UnmatchedOpen(src) == LET s == ScanBrackets(src, 1, 0) IN s.bad = 0 /\ s.depth > 0
Balanced(src) == LET s == ScanBrackets(src, 1, 0) IN s.bad = 0 /\ s.depth = 0

\* index of the LoopEnd that closes the loop opened at index i, found by
\* counting nesting depth over the instruction kinds (-1 if there is none)
RECURSIVE FindClose(_, _, _)
FindClose(ins, j, d) ==
  IF j >= Len(ins) THEN -1
  ELSE IF ins[j + 1].op = "LoopStart" THEN FindClose(ins, j + 1, d + 1)
  ELSE IF ins[j + 1].op = "LoopEnd"
       THEN IF d = 1 THEN j ELSE FindClose(ins, j + 1, d - 1)
  ELSE FindClose(ins, j + 1, d)

MatchClose(ins, i) == FindClose(ins, i + 1, 1)

Compiled == pc \in {"run", "done", "panic_run"}
Running == pc = "run" /\ index < Len(instructions)

(* ----------------------- further specifications ----------------------- *)
\* loops: every source over the loop alphabet, no input
LoopAlphabet == {"[", "]", "+", ">", "."}
InitLoops == \E src \in SeqsUpTo(LoopAlphabet, MaxLoopLen) : New(src, <<>>)
SpecLoops == InitLoops /\ [][Next]_vars

\* pointer movement: every bracket-free source over the pointer alphabet
PtrAlphabet == {"<", ">", "+", "."}
InitPtr == \E src \in SeqsUpTo(PtrAlphabet, MaxPtrLen) : New(src, <<>>)
SpecPtr == InitPtr /\ [][Next]_vars

\* cell arithmetic and reads: short programs fed every byte value
EchoSource == <<",", ".">>
IncSource == <<",", "+", ".">>
DecSource == <<",", "-", ".">>
IncDecSource == <<",", "+", "-", ".">>
DecIncSource == <<",", "-", "+", ".">>
Inc256Source == <<",">> \o Repeat("+", 256) \o <<".">>
TwoReadsSource == <<",", ".", ",", ".">>
CellSources == {EchoSource, IncSource, DecSource, IncDecSource, DecIncSource,
                Inc256Source, TwoReadsSource}
CellInputs == {<<v>> : v \in Byte} \cup {<<v, 255 - v>> : v \in Byte}
InitCell == \E src \in CellSources, inp \in CellInputs : New(src, inp)
SpecCell == InitCell /\ [][Next]_vars

\* tests::test_add, the source as written there and without its blanks
AddSource == <<",", ">", ",", "<", "[", "-", ">", "+", "<", "]", ">", ".">>
AddSourceSpaced ==
  <<",", ">", ",", "<", "[", "-", " ", ">", "+", " ", "<", "]", ">", ".">>
AddSecond == {0, 1, 35, 128, 225, 226, 255}
InitAdd == \E src \in {AddSource, AddSourceSpaced}, a \in 0..MaxAddA, b \in AddSecond :
             New(src, <<a, b>>)
SpecAdd == InitAdd /\ [][Next]_vars /\ WF_vars(Next)

\* tests::test_loop and tests::test_full: a '+', "[>", b '+', "<-]>", c '+', "."
MulSource(a, b, c) ==
  Repeat("+", a) \o <<"[", ">">> \o Repeat("+", b) \o <<"<", "-", "]", ">">>
    \o Repeat("+", c) \o <<".">>
MulCases == ((0..MaxMulA) \X (0..MaxMulB) \X (0..MaxMulC))
              \cup {<<16, 16, 0>>, <<16, 16, 3>>}
InitMul == \E t \in MulCases : New(MulSource(t[1], t[2], t[3]), <<>>)
SpecMul == InitMul /\ [][Next]_vars /\ WF_vars(Next)

(* ------------------------------ claims -------------------------------- *)
NoExecution == steps = 0 /\ output = <<>> /\ inpos = 0

\* C1 (as claimed): a source with a '[' that no ']' closes makes compile
\* abort, so run is never entered and no instruction is executed: no
\* executor step, no output byte, no input byte consumed.
C1_UnmatchedOpenAborts ==
  UnmatchedOpen(code) => (pc \notin {"run", "done", "panic_run"} /\ NoExecution)

\* C2: when some ']' of the source is read with no '[' pending, compile
\* panics at that ']' (never getting past it), wherever it stands, and
\* nothing is executed: no executor step, no output byte, no input byte.
C2_BadCloseAbortsInCompile ==
  LET k == FirstBadClose(code) IN
    k # 0 =>
      /\ pc \in {"new", "compile", "panic_compile"}
      /\ pc = "compile" => pos < k
      /\ pc = "panic_compile" => pos = k - 1
      /\ NoExecution

C2_Witness ==
  /\ pc = "panic_compile"
  /\ FirstBadClose(code) = 3
  /\ Len(instructions) = 2
  /\ instructions[1].op \in {"Write", "Read"}

\* C3: a Read executed with no unread input byte left aborts the run at that
\* instruction: the tape, the pointer, the output, the input position and
\* the instruction index stay as they were, and no step follows the abort.
ReadAtEof == Running /\ At(index).op = "Read" /\ inpos >= Len(input)

C3_ReadAtEofAborts ==
  [][ /\ pc # "panic_run"
      /\ ReadAtEof =>
           /\ pc' = "panic_run"
           /\ UNCHANGED <<memory, pointer, output, inpos, index, instructions>>
    ]_vars

C3_Witness ==
  /\ pc = "panic_run"
  /\ Len(output) > 0
  /\ Cell(memory, pointer) # 0
  /\ inpos = Len(input)

\* C4 (as claimed): in a program compiled from a balanced source every
\* LoopStart carries the index immediately after its matching LoopEnd.
C4_TargetAfterClose ==
  (Compiled /\ Balanced(code)) =>
    \A i \in 0..(Len(instructions) - 1) :
      At(i).op = "LoopStart" => At(i).arg = MatchClose(instructions, i) + 1

\* C4 (amended): in a program compiled from a balanced source every
\* LoopStart carries the index of its matching LoopEnd itself, and a
\* LoopStart executed on a zero cell moves the instruction index to that
\* LoopEnd.
C4_TargetIsClose ==
  /\ [](  (Compiled /\ Balanced(code)) =>
            \A i \in 0..(Len(instructions) - 1) :
              At(i).op = "LoopStart" =>
                /\ At(i).arg = MatchClose(instructions, i)
                /\ At(i).arg > i )
  /\ [][ (Running /\ Balanced(code) /\ At(index).op = "LoopStart"
            /\ Cell(memory, pointer) = 0) =>
           index' = MatchClose(instructions, index) ]_vars

C4_Witness ==
  /\ pc = "run"
  /\ Balanced(code)
  /\ steps = 1
  /\ index = 3
  /\ At(0) = Instruction("LoopStart", 3)
  /\ At(3).op = "LoopEnd"

\* C5: in a balanced program a LoopStart executed on a zero cell goes
\* straight to its matching LoopEnd, and a LoopEnd executed on a zero cell
\* goes to the instruction after it; both leave the tape, the pointer, the
\* input position and the output unchanged, so no instruction of the body
\* runs, at any nesting depth.
C5_ZeroCellSkipsBody ==
  [][ (Running /\ Balanced(code) /\ Cell(memory, pointer) = 0) =>
        /\ At(index).op = "LoopStart" =>
             /\ index' = MatchClose(instructions, index)
             /\ At(index').op = "LoopEnd"
             /\ At(index').arg = index
             /\ UNCHANGED <<memory, pointer, inpos, output>>
        /\ At(index).op = "LoopEnd" =>
             /\ index' = index + 1
             /\ UNCHANGED <<memory, pointer, inpos, output>>
    ]_vars

C5_Witness ==
  /\ pc = "run"
  /\ Balanced(code)
  /\ steps = 2
  /\ Len(instructions) = 4
  /\ index = 4
  /\ At(0).op = "LoopStart"
  /\ At(1).op = "LoopStart"
  /\ memory = ZeroMemory /\ pointer = 0 /\ output = <<>>

\* C6: cell arithmetic is modulo 256 and never faults: every Increment
\* step turns the cell v into (v + 1) mod 256 and every Decrement step into
\* (v - 1) mod 256; fed any byte v, ",+." writes (v + 1) mod 256, ",-."
\* writes (v - 1) mod 256 (255 for v = 0), and v followed by 256
\* Increments, by Increment then Decrement, or by Decrement then Increment
\* is written back as v.
ArithSources == {IncSource, DecSource, IncDecSource, DecIncSource, Inc256Source}

C6_CellArithmeticWraps ==
  /\ [](  code \in ArithSources =>
            /\ pc \notin {"panic_compile", "panic_run"}
            /\ \A q \in DOMAIN memory : memory[q] \in 1..255
            /\ pc = "done" =>
                 /\ code = IncSource => output = <<(input[1] + 1) % 256>>
                 /\ code = DecSource => output = <<(input[1] - 1) % 256>>
                 /\ code \in {IncDecSource, DecIncSource, Inc256Source} =>
                      output = <<input[1]>> )
  /\ [][ Running =>
           /\ At(index).op = "Increment" =>
                Cell(memory', pointer) = (Cell(memory, pointer) + 1) % 256
           /\ At(index).op = "Decrement" =>
                Cell(memory', pointer) = (Cell(memory, pointer) - 1) % 256
       ]_vars

C6_Witness ==
  /\ pc = "done"
  /\ code = DecSource
  /\ input = <<0>>
  /\ output = <<255>>

\* C7: pointer movement is circular: in a bracket-free program the pointer
\* is always the number of MoveRight minus the number of MoveLeft executed
\* so far, modulo the tape length (so MoveLeft from 0 lands on length - 1,
\* MoveRight from length - 1 lands on 0, and a MoveRight and a MoveLeft
\* cancel in either order), and "+><." writes the incremented origin cell.
RECURSIVE NetMoves(_, _)
NetMoves(ins, n) ==
  IF n = 0 THEN 0
  ELSE NetMoves(ins, n - 1)
         + (IF ins[n].op = "MoveRight" THEN 1
            ELSE IF ins[n].op = "MoveLeft" THEN -1 ELSE 0)

BracketFree(src) == \A k \in 1..Len(src) : src[k] \notin {"[", "]"}

C7_PointerIsCircular ==
  /\ (Compiled /\ BracketFree(code)) =>
       pointer = NetMoves(instructions, index) % MEMORY_SIZE
  /\ (pc = "done" /\ code = <<"+", ">", "<", ".">>) => output = <<1>>

C7_Witness ==
  /\ pc = "done"
  /\ code = <<"+", "<", ">", ".">>
  /\ pointer = 0
  /\ output = <<1>>

\* C8: for input bytes a and b the addition program, with or without blanks
\* between its instructions, never aborts, terminates, and ends having
\* written the single byte (a + b) mod 256 and consumed two input bytes.
C8_AddInv ==
  /\ pc \notin {"panic_compile", "panic_run"}
  /\ Len(output) <= 1
  /\ inpos <= 2
  /\ steps <= 6 * input[1] + 8
  /\ pc = "done" =>
       /\ output = <<(input[1] + input[2]) % 256>>
       /\ inpos = 2

C8_AddProgram == []C8_AddInv /\ <>(pc = "done")

C8_Witness ==
  /\ pc = "done"
  /\ code = AddSourceSpaced
  /\ input = <<30, 35>>
  /\ output = <<65>>

\* C9: the source of a '+', "[>", b '+', "<-]>", c '+', "." run on empty
\* input never aborts, terminates, and ends having written the single byte
\* (a * b + c) mod 256.
FirstIndex(s, ch) ==
  CHOOSE k \in 1..Len(s) : s[k] = ch /\ \A j \in 1..(k - 1) : s[j] # ch

MulA(src) == FirstIndex(src, "[") - 1
MulB(src) == FirstIndex(src, "<") - MulA(src) - 3
MulC(src) == Len(src) - MulA(src) - MulB(src) - 7

C9_MulInv ==
  /\ pc \notin {"panic_compile", "panic_run"}
  /\ Len(output) <= 1
  /\ inpos = 0
  /\ code = MulSource(MulA(code), MulB(code), MulC(code))
  /\ pc = "done" =>
       output = <<(MulA(code) * MulB(code) + MulC(code)) % 256>>

C9_MulProgram == []C9_MulInv /\ <>(pc = "done")

C9_Witness ==
  /\ pc = "done"
  /\ code = MulSource(6, 10, 5)
  /\ output = <<65>>

\* C10: each executed Read consumes exactly one input byte, in stream
\* order: it stores the byte at the input position in the cell at the
\* pointer, replacing what was there and touching no other cell, and
\* advances the position by one; no other step moves the position; so ",."
\* writes the input byte and ",.,." writes the first two input bytes.
C10_ReadConsumesInOrder ==
  /\ [][ /\ (Running /\ At(index).op = "Read" /\ inpos < Len(input)) =>
              /\ inpos' = inpos + 1
              /\ pointer' = pointer
              /\ Cell(memory', pointer) = input[inpos + 1]
              /\ \A q \in ((DOMAIN memory) \cup (DOMAIN memory')) \ {pointer} :
                   Cell(memory', q) = Cell(memory, q)
         /\ ~(Running /\ At(index).op = "Read") => inpos' = inpos
       ]_vars
  /\ []( pc = "done" =>
           /\ code = EchoSource => output = <<input[1]>>
           /\ (code = TwoReadsSource /\ Len(input) = 2) =>
                output = <<input[1], input[2]>> )

C10_Witness ==
  /\ pc = "done"
  /\ code = TwoReadsSource
  /\ input = <<65, 190>>
  /\ output = <<65, 190>>
  /\ Cell(memory, 0) = 190

\* C11: compile emits exactly one instruction per recognized character, in
\* source order, and nothing for any other character: after the first pos
\* characters the program holds one instruction of the matching kind per
\* recognized character among them; the compiled program equals the one
\* compiled from the source with the other characters removed; a source
\* with no recognized character compiles to the empty program, which ends
\* with zero steps, an all-zero tape and no output.
Strip(src) == SelectSeq(src, LAMBDA c : c \in Recognized)

OpOf(ch) ==
  CASE ch = ">" -> "MoveRight"
    [] ch = "<" -> "MoveLeft"
    [] ch = "+" -> "Increment"
    [] ch = "-" -> "Decrement"
    [] ch = "." -> "Write"
    [] ch = "," -> "Read"
    [] ch = "[" -> "LoopStart"
    [] ch = "]" -> "LoopEnd"

C11_OneInstructionPerRecognized ==
  /\ (pc = "compile" \/ Compiled) =>
       LET seen == Strip(SubSeq(code, 1, pos)) IN
         /\ Len(instructions) = Len(seen)
         /\ \A k \in 1..Len(seen) : instructions[k].op = OpOf(seen[k])
  /\ Compiled =>
       /\ pos = Len(code)
       /\ instructions = compile(Strip(code)).instructions
  /\ Strip(code) = <<>> =>
       /\ instructions = <<>>
       /\ pc \notin {"panic_compile", "panic_run"}
       /\ steps = 0 /\ index = 0
       /\ memory = ZeroMemory /\ pointer = 0
       /\ output = <<>> /\ inpos = 0

C11_Witness ==
  /\ pc = "done"
  /\ code = <<"+", " ", ".">>
  /\ Len(instructions) = 2
  /\ output = <<1>>

(* ------------------ an instance compiled more than once --------------- *)
\* compile called again on an instance that has compiled and run a program:
\* lines 47-48 on used state, with a new source
Recompile ==
  /\ pc = "done"
  /\ compiles < MaxCompiles
  /\ \E src \in SeqsUpTo(LoopAlphabet, MaxReuseLen) : code' = src
  /\ pc' = "compile"
  /\ memory' = reset_memory(memory)
  /\ pointer' = reset_pointer(pointer)
  /\ instructions' = clear_instructions(instructions)
  /\ left' = <<>>
  /\ pos' = 0
  /\ steps' = 0
  /\ compiles' = compiles + 1
  /\ UNCHANGED <<input, index, inpos, output>>

NextReuse == Next \/ Recompile
InitReuse == \E src \in SeqsUpTo(LoopAlphabet, MaxReuseLen) : New(src, <<>>)
SpecReuse == InitReuse /\ [][NextReuse]_vars

\* C12: the state compile leaves depends on the source alone: whatever the
\* instance compiled and ran before, while compile reads the source and when
\* it returns or panics the tape is all zeros, the pointer is 0 and the
\* program is the one a fresh instance builds from the characters read so
\* far; the program that is run is the fresh compilation of the source.
C12_CompileDependsOnSourceOnly ==
  /\ pc \in {"compile", "panic_compile"} =>
       /\ memory = ZeroMemory
       /\ pointer = 0
       /\ instructions = compile(SubSeq(code, 1, pos)).instructions
  /\ (pc = "run" /\ steps = 0 /\ index = 0) =>
       /\ memory = ZeroMemory
       /\ pointer = 0
  /\ Compiled => instructions = compile(code).instructions

C12_Witness ==
  /\ compiles = 2
  /\ pc = "run" /\ steps = 0 /\ index = 0
  /\ output = <<1>>
  /\ code = <<">">>
  /\ instructions = <<Instruction("MoveRight", 0)>>

\* C13: in a program of length N compiled from a balanced source the
\* instruction index stays within 0..N, and run returns exactly when the
\* index equals N: a step out of run ends it if and only if index = N.
C13_IndexWithinProgram ==
  /\ []( (Compiled /\ Balanced(code)) =>
           /\ index \in 0..Len(instructions)
           /\ pc = "done" => index = Len(instructions) )
  /\ [][ (pc = "run" /\ Balanced(code)) =>
           ((pc' = "done") <=> (index = Len(instructions))) ]_vars

C13_Witness ==
  /\ pc = "done"
  /\ code = <<"+", "[", ">", "]">>
  /\ index = 4
  /\ pointer = 1

(* --------------------------- termination ------------------------------ *)
\* every bracket-free source over the halt alphabet, and loops whose
\* controlling cell is never zero at their LoopEnd
HaltAlphabet == {"+", ",", ".", ">"}
ForeverSources == {<<"+", "[", "]">>, <<"+", "[", ".", "]">>,
                   <<"+", "[", ">", "+", "]">>}
InitHalt == \E src \in SeqsUpTo(HaltAlphabet, MaxHaltLen) \cup ForeverSources,
               inp \in SeqsUpTo(InputBytes, MaxInput) : New(src, inp)
SpecHalt == InitHalt /\ [][Next]_vars /\ WF_vars(Next)

Reads(src) == Len(SelectSeq(src, LAMBDA c : c = ","))

RECURSIVE FindOpen(_, _, _)
FindOpen(ins, i, d) ==
  IF i < 0 THEN -1
  ELSE IF ins[i + 1].op = "LoopEnd" THEN FindOpen(ins, i - 1, d + 1)
  ELSE IF ins[i + 1].op = "LoopStart"
       THEN IF d = 1 THEN i ELSE FindOpen(ins, i - 1, d - 1)
  ELSE FindOpen(ins, i - 1, d)

MatchOpen(ins, j) == FindOpen(ins, j - 1, 1)

\* C15: in a program compiled from a balanced source the loop instructions
\* are paired by nesting: index j holds LoopEnd(i) if and only if index i
\* holds LoopStart(j); then i < j and i is the innermost LoopStart still
\* open at j; no LoopStart keeps the placeholder target 0.
C15_LoopsPairedByNesting ==
  (Compiled /\ Balanced(code)) =>
    LET N == Len(instructions) IN
      /\ \A i, j \in 0..(N - 1) :
           (At(j) = Instruction("LoopEnd", i)) <=> (At(i) = Instruction("LoopStart", j))
      /\ \A j \in 0..(N - 1) :
           At(j).op = "LoopEnd" =>
             /\ At(j).arg = MatchOpen(instructions, j)
             /\ At(j).arg < j
      /\ \A i \in 0..(N - 1) :
           At(i).op = "LoopStart" => (At(i).arg # 0 /\ At(i).arg > i)

C15_Witness ==
  /\ pc = "run"
  /\ code = <<"[", "[", "]", "]">>
  /\ instructions = <<Instruction("LoopStart", 3), Instruction("LoopStart", 2),
                      Instruction("LoopEnd", 1), Instruction("LoopEnd", 0)>>

\* C16: in every state of compile and run, whatever MoveRight and MoveLeft
\* instructions have executed, the pointer is within 0..MEMORY_SIZE - 1, so
\* the cell it names exists, and no cell outside the tape is ever written.
C16_PointerInBounds ==
  /\ pointer \in 0..(MEMORY_SIZE - 1)
  /\ DOMAIN memory \subseteq 0..(MEMORY_SIZE - 1)

C16_Witness ==
  /\ pc = "done"
  /\ pointer = MEMORY_SIZE - 1
  /\ code = <<"<", "<", ">">>

\* C17: the executor never changes the program: no step taken while run is
\* active alters the instruction sequence, so in every state of run and
\* after it the program, jump targets included, is what compile built from
\* the source, however many loop iterations have executed.
C17_ProgramImmutableInRun ==
  /\ [][ pc = "run" =>
           /\ instructions' = instructions
           /\ Len(instructions') = Len(instructions) ]_vars
  /\ []( Compiled => instructions = compile(code).instructions )

C17_Witness ==
  /\ pc = "run"
  /\ code = <<"+", "[", ".", "]">>
  /\ output = <<1, 1, 1>>
  /\ instructions = <<Instruction("Increment", 0), Instruction("LoopStart", 3),
                      Instruction("Write", 0), Instruction("LoopEnd", 1)>>

\* C18: each executor step changes only its own component besides the
\* instruction index: Increment and Decrement only the cell at the pointer;
\* MoveRight and MoveLeft only the pointer; Write appends the cell at the
\* pointer, one byte, to the output and leaves tape and pointer alone;
\* LoopStart and LoopEnd change the index only; Read touches only the cell
\* at the pointer and the input position, and no other step moves the
\* input position.
OtherCellsSame(p) ==
  \A q \in ((DOMAIN memory) \cup (DOMAIN memory')) \ {p} :
    Cell(memory', q) = Cell(memory, q)

C18_StepFrames ==
  [][ Running =>
        LET op == At(index).op IN
          /\ op \in {"Increment", "Decrement"} =>
               /\ OtherCellsSame(pointer)
               /\ UNCHANGED <<pointer, inpos, output>>
          /\ op \in {"MoveRight", "MoveLeft"} =>
               UNCHANGED <<memory, inpos, output>>
          /\ op = "Write" =>
               /\ output' = Append(output, Cell(memory, pointer))
               /\ UNCHANGED <<memory, pointer, inpos>>
          /\ op \in {"LoopStart", "LoopEnd"} =>
               UNCHANGED <<memory, pointer, inpos, output>>
          /\ op = "Read" =>
               /\ OtherCellsSame(pointer)
               /\ UNCHANGED <<pointer, output>>
          /\ op # "Read" => inpos' = inpos
          /\ UNCHANGED <<instructions, code, input>>
    ]_vars

C18_Witness ==
  /\ pc = "run"
  /\ code = <<"+", ".", ">">>
  /\ index = 2
  /\ output = <<1>>
  /\ pointer = 0
  /\ Cell(memory, 0) = 1

\* C19: in a program compiled from a balanced source, whenever the
\* instruction index is the index immediately after a LoopEnd the cell at
\* the pointer is zero (a loop is left, or skipped, only on a zero cell),
\* and whenever a LoopEnd sends control back to its LoopStart the cell is
\* nonzero.
C19_LoopExitOnZero ==
  /\ []( (pc \in {"run", "done"} /\ Balanced(code) /\ index >= 1
            /\ At(index - 1).op = "LoopEnd") =>
           Cell(memory, pointer) = 0 )
  /\ [][ (Running /\ Balanced(code) /\ At(index).op = "LoopEnd"
            /\ index' = At(index).arg) =>
           /\ Cell(memory, pointer) # 0
           /\ At(index').op = "LoopStart"
           /\ MatchClose(instructions, index') = index ]_vars

C19_Witness ==
  /\ pc = "run"
  /\ code = <<"+", "[", ">", "]">>
  /\ index = 4
  /\ steps = 4
  /\ Cell(memory, 0) = 1
  /\ Cell(memory, pointer) = 0

(* ------------------- comparison with a direct skip -------------------- *)
\* every source over the comparison alphabet, with no input or one byte
EquivAlphabet == {"[", "]", "-", ",", "."}
InitEquiv == \E src \in SeqsUpTo(EquivAlphabet, MaxEquivLen),
                inp \in SeqsUpTo(InputBytes, 1) : New(src, inp)
SpecEquiv == InitEquiv /\ [][Next]_vars

\* the reference executor: as run, except that LoopStart on a zero cell
\* moves directly to the index after the matching LoopEnd
RefInit ==
  [status |-> "run", index |-> 0, memory |-> ZeroMemory, pointer |-> 0,
   inpos |-> 0, output |-> <<>>]

RefStep(ins, inp, st) ==
  LET i == ins[st.index + 1]
      cell == Cell(st.memory, st.pointer)
      rd == read_exact(inp, st.inpos)
  IN
    IF i.op = "Read" /\ ~rd.ok THEN [st EXCEPT !.status = "panic"]
    ELSE
      [status |-> "run",
       memory |->
         CASE i.op = "Increment" -> SetCell(st.memory, st.pointer, wrapping_add(cell))
           [] i.op = "Decrement" -> SetCell(st.memory, st.pointer, wrapping_sub(cell))
           [] i.op = "Read" -> SetCell(st.memory, st.pointer, rd.byte)
           [] OTHER -> st.memory,
       pointer |->
         CASE i.op = "MoveRight" -> MoveRight(st.pointer)
           [] i.op = "MoveLeft" -> MoveLeft(st.pointer)
           [] OTHER -> st.pointer,
       inpos |-> IF i.op = "Read" THEN rd.inpos ELSE st.inpos,
       output |-> IF i.op = "Write" THEN Append(st.output, cell) ELSE st.output,
       index |->
         CASE i.op = "LoopStart" ->
                IF cell = 0 THEN MatchClose(ins, st.index) + 1 ELSE st.index + 1
           [] i.op = "LoopEnd" ->
                IF cell # 0 THEN MatchOpen(ins, st.index) ELSE st.index + 1
           [] OTHER -> st.index + 1]

\* the reference executor followed for at most fuel steps
RECURSIVE RefRun(_, _, _, _)
RefRun(ins, inp, st, fuel) ==
  IF st.index >= Len(ins) THEN [st EXCEPT !.status = "done"]
  ELSE IF fuel = 0 THEN st
  ELSE LET n == RefStep(ins, inp, st) IN
       IF n.status = "panic" THEN n ELSE RefRun(ins, inp, n, fuel - 1)

SameResult(r) ==
  /\ r.output = output
  /\ r.inpos = inpos
  /\ r.memory = memory
  /\ r.pointer = pointer

\* C20: for a balanced source and any input, run (LoopStart on a zero cell
\* goes to the matching LoopEnd, which falls through) and the reference
\* executor (LoopStart on a zero cell goes directly past the matching
\* LoopEnd) agree: when run returns, the reference has returned with the
\* same output, input position, tape and pointer, in no more steps; when
\* run aborts on a read, so does the reference, with the same state; and
\* when run is still going after MaxSteps steps, the reference is still
\* going after half as many.
C20_SameAsDirectSkip ==
  Balanced(code) =>
    /\ pc = "done" =>
         LET r == RefRun(instructions, input, RefInit, steps) IN
           r.status = "done" /\ SameResult(r)
    /\ pc = "panic_run" =>
         LET r == RefRun(instructions, input, RefInit, steps + 1) IN
           r.status = "panic" /\ SameResult(r)
    /\ (pc = "run" /\ steps = MaxSteps /\ index < Len(instructions)) =>
         RefRun(instructions, input, RefInit, MaxSteps \div 2).status = "run"

C20_Witness ==
  /\ pc = "done"
  /\ code = <<",", "[", ".", "]">>
  /\ input = <<0>>
  /\ steps = 3
  /\ output = <<>>
  /\ RefRun(instructions, input, RefInit, 2).status = "done"

====
